---- MODULE Spec2Model ----
(***************************************************************************)
(* Maintenance-window scheduling (src/main.py).                            *)
(*                                                                         *)
(* build_model turns per-day data and availability flags into a binary     *)
(* program; an external engine solves it; print_solution turns the solved  *)
(* values and the solver status into the printed report.                   *)
(*                                                                         *)
(* Solved values are floating point in the program.  Here a value is an    *)
(* integer number of tenths: 0 is 0.0, Half is 0.5, One is 1.0.            *)
(***************************************************************************)
EXTENDS Integers, Sequences, FiniteSets

VARIABLES
    pc,                 \* position in the script: "build", "solve", "print", "done"
    T,                  \* len(prod): model.T = RangeSet(1, T)
    Production,         \* model.Production
    Prices,             \* model.Prices
    MaintenanceCoeff,   \* model.MaintenanceCoeff
    Availability,       \* model.Availability (0 / 1 per day)
    fixed,              \* the variables build_model fixed: <<name, day>>
    Split,              \* value(model.Split), in tenths
    Maintenance,        \* value(model.Maintenance[day]), in tenths
    Start5,             \* value(model.Start5[day]), in tenths
    Start3,             \* value(model.Start3[day]), in tenths
    Start2,             \* value(model.Start2[day]), in tenths
    loaded,             \* the solver loaded a solution into the variables
    status,             \* results.solver.status
    termination,        \* results.solver.termination_condition
    out                 \* the lines printed by print_solution

vars == <<pc, T, Production, Prices, MaintenanceCoeff, Availability, fixed,
          Split, Maintenance, Start5, Start3, Start2, loaded, status,
          termination, out>>

----------------------------------------------------------------------------
\* Bounds of the model

\* longest horizon of the general specification
MaxT == 5

----------------------------------------------------------------------------
\* Program constants and value encoding

capacity == 20

fixed_cost == 500

\* 1.0 in tenths: the upper value of the Binary domain
One == 10

\* 0.5 in tenths: the threshold print_solution compares with
Half == 5

\* a variable that holds no value yet (pyomo: None)
NoValue == "None"

NoStatus == "none"

Statuses == {"ok", "warning", "aborted", "error"}

Terminations == {"optimal", "feasible", "infeasible", "maxTimeLimit", "error"}

Days == 1..T

----------------------------------------------------------------------------
\* build_model: the constraints and the objective, over exact 0/1 values

RECURSIVE SumRange(_, _, _)
\* sum(f[k] for k in range(lo, hi + 1))
SumRange(f, lo, hi) ==
    IF lo > hi THEN 0 ELSE f[lo] + SumRange(f, lo + 1, hi)

Max(a, b) == IF a >= b THEN a ELSE b

\* sum(model.Start5[day] for day in model.T) == 1 - model.Split
one_maintenance_start_5(x5, split) == SumRange(x5, 1, T) = 1 - split

\* mutant: the Start3 count constraint written with the Start5 right-hand side
one_maintenance_start_3_AsStart5(x3, split) == SumRange(x3, 1, T) = 1 - split

\* sum(model.Start3[day] for day in model.T) == model.Split
one_maintenance_start_3(x3, split) == SumRange(x3, 1, T) = split

\* sum(model.Start2[day] for day in model.T) == model.Split
one_maintenance_start_2(x2, split) == SumRange(x2, 1, T) = split

\* the right-hand side of link_maintenance_rule for one day
link_maintenance_rule(x5, x3, x2, day) ==
    LET days_5 == SumRange(x5, Max(1, day - 4), day)
        days_3 == SumRange(x3, Max(1, day - 2), day)
        days_2 == SumRange(x2, Max(1, day - 1), day)
    IN  days_5 + days_3 + days_2

\* the objective expression, for a Maintenance vector m whose entries are
\* multiples of 1/unit (unit = 1 for exact values, One for tenths);
\* the result is in the same unit
profit(m, unit) ==
    LET term[day \in Days] ==
            capacity * Production[day] * Prices[day] * (unit - m[day])
            - fixed_cost * MaintenanceCoeff[day] * m[day]
    IN  SumRange(term, 1, T)

\* the 0/1 vectors a family of start variables can take: a fixed variable
\* stays at the value it was fixed to (0)
Vectors(name) ==
    LET free == {d \in Days : <<name, d>> \notin fixed}
    IN  {[d \in Days |-> IF d \in S THEN 1 ELSE 0] : S \in SUBSET free}

\* the satisfying assignments with model.Split = split.  Maintenance[day] is
\* Binary and equals the linking sum, so the sum must be 0 or 1.
FeasibleWith(split) ==
    LET X5 == {x \in Vectors("Start5") : one_maintenance_start_5(x, split)}
        X3 == {x \in Vectors("Start3") : one_maintenance_start_3(x, split)}
        X2 == {x \in Vectors("Start2") : one_maintenance_start_2(x, split)}
        all == {[Split |-> split, Start5 |-> x5, Start3 |-> x3, Start2 |-> x2,
                 Maintenance |->
                    [d \in Days |-> link_maintenance_rule(x5, x3, x2, d)]] :
                    x5 \in X5, x3 \in X3, x2 \in X2}
    IN  {a \in all : \A d \in Days : a.Maintenance[d] \in {0, 1}}

\* every assignment of binary values that satisfies the built model
Feasible == FeasibleWith(0) \cup FeasibleWith(1)

\* sense=maximize: the assignments an engine may report as optimal
Optimum ==
    {a \in Feasible :
        \A b \in Feasible : profit(b.Maintenance, 1) <= profit(a.Maintenance, 1)}

----------------------------------------------------------------------------
\* print_solution

Line(text, arg) == [text |-> text, arg |-> arg]

RECURSIVE Starts5From(_)
\* for day in model.T: if value(model.Start5[day]) > 0.5: print(...)
Starts5From(day) ==
    IF day > T THEN <<>>
    ELSE (IF Start5[day] > Half
            THEN <<Line("5-day window starts on day", day)>> ELSE <<>>)
         \o Starts5From(day + 1)

RECURSIVE Starts32From_Start3Twice(_)
\* mutant: the 2-day test reads Start3
Starts32From_Start3Twice(day) ==
    IF day > T THEN <<>>
    ELSE (IF Start3[day] > Half
            THEN <<Line("3-day window starts on day", day)>> ELSE <<>>)
         \o (IF Start3[day] > Half
            THEN <<Line("2-day window starts on day", day)>> ELSE <<>>)
         \o Starts32From_Start3Twice(day + 1)

RECURSIVE Starts32From(_)
\* for day in model.T: the Start3 test, then the Start2 test
Starts32From(day) ==
    IF day > T THEN <<>>
    ELSE (IF Start3[day] > Half
            THEN <<Line("3-day window starts on day", day)>> ELSE <<>>)
         \o (IF Start2[day] > Half
            THEN <<Line("2-day window starts on day", day)>> ELSE <<>>)
         \o Starts32From(day + 1)

\* round(x, 2) of a value given in tenths: the result, in hundredths
Round2(tenths) == tenths * 10

\* mutant: the status test dropped
IsOptimal_TerminationOnly(st, tc) == tc = "optimal"

\* results.solver.status == ok and termination_condition == optimal
IsOptimal(st, tc) == st = "ok" /\ tc = "optimal"

\* the lines print_solution prints
print_solution(st, tc) ==
    IF IsOptimal(st, tc)
    THEN <<Line("Optimal solution found.", 0)>>
         \o (IF Split = 0
             THEN <<Line("Chosen strategy: 5-day maintenance.", 0)>>
                  \o Starts5From(1)
             ELSE <<Line("Chosen strategy: 3-day + 2-day maintenance.", 0)>>
                  \o Starts32From(1))
         \o <<Line("Total Revenue:", Round2(profit(Maintenance, One)))>>
    ELSE <<Line("No feasible solution or solver error.", 0)>>

----------------------------------------------------------------------------
\* Inputs

HorizonData(t) ==
    [prod  : {[d \in 1..t |-> p] : p \in {0, 1}},
     price : {[d \in 1..t |-> 10], [d \in 1..t |-> d]},
     coeff : {[d \in 1..t |-> c] : c \in {0, 1}},
     avail : [1..t -> {0, 1}]]

\* the state before build_model runs, for given inputs
Start(t, data) ==
    /\ pc = "build"
    /\ T = t
    /\ Production = data.prod
    /\ Prices = data.price
    /\ MaintenanceCoeff = data.coeff
    /\ Availability = data.avail
    /\ fixed = {}
    /\ Split = NoValue
    /\ Maintenance = [d \in 1..t |-> NoValue]
    /\ Start5 = [d \in 1..t |-> NoValue]
    /\ Start3 = [d \in 1..t |-> NoValue]
    /\ Start2 = [d \in 1..t |-> NoValue]
    /\ loaded = FALSE
    /\ status = NoStatus
    /\ termination = NoStatus
    /\ out = <<>>

Init == \E t \in 1..MaxT : \E data \in HorizonData(t) : Start(t, data)

----------------------------------------------------------------------------
\* Actions

\* mutant: the availability test inverted
Unavailable_Inverted == {d \in Days : Availability[d] # 0}

\* the days whose start variables build_model fixes to 0
Unavailable == {d \in Days : Availability[d] = 0}

\* mutant: Start2 left unfixed
FixedVars_NoStart2 == {"Start5", "Start3"} \X {d \in Days : Availability[d] = 0}

\* mutant: Start5 left unfixed
FixedVars_NoStart5 == {"Start3", "Start2"} \X {d \in Days : Availability[d] = 0}

\* the variables build_model fixes
FixedVars == {"Start5", "Start3", "Start2"} \X Unavailable

\* build_model: declare the variables and fix the starts of unavailable days
Build ==
    /\ pc = "build"
    /\ fixed' = FixedVars
    /\ Start5' = [d \in Days |-> IF <<"Start5", d>> \in fixed' THEN 0 ELSE NoValue]
    /\ Start3' = [d \in Days |-> IF <<"Start3", d>> \in fixed' THEN 0 ELSE NoValue]
    /\ Start2' = [d \in Days |-> IF <<"Start2", d>> \in fixed' THEN 0 ELSE NoValue]
    /\ pc' = "solve"
    /\ UNCHANGED <<T, Production, Prices, MaintenanceCoeff, Availability,
                   Split, Maintenance, loaded, status, termination, out>>

\* the float the engine returns for an exact binary value b
Returned(b, noise) == IF b = 0 THEN noise[1] ELSE noise[2]

\* what a solving engine may report: "optimal" only with an optimum loaded,
\* "infeasible" only for a model with no satisfying assignment and with
\* nothing loaded; an engine that stops early ("feasible", "maxTimeLimit")
\* may load the satisfying assignment it holds; an error loads nothing
Loadable(tc, load) ==
    IF load
    THEN (IF tc = "optimal" THEN Optimum
          ELSE IF tc \in {"feasible", "maxTimeLimit"} THEN Feasible
          ELSE {})
    ELSE IF tc = "optimal" THEN {}
    ELSE IF tc = "infeasible" /\ Feasible # {} THEN {}
    ELSE {[Split |-> 0]}

\* solver.solve(model): the engine's report and the values it loads
SolveWith(noises) ==
    /\ pc = "solve"
    /\ \E st \in Statuses, tc \in Terminations, load \in BOOLEAN :
        \E sol \in Loadable(tc, load), noise \in noises :
        /\ status' = st
        /\ termination' = tc
        /\ loaded' = load
        /\ IF load
           THEN /\ Split' = Returned(sol.Split, noise)
                /\ Maintenance' = [d \in Days |-> Returned(sol.Maintenance[d], noise)]
                /\ Start5' = [d \in Days |-> Returned(sol.Start5[d], noise)]
                /\ Start3' = [d \in Days |-> Returned(sol.Start3[d], noise)]
                /\ Start2' = [d \in Days |-> Returned(sol.Start2[d], noise)]
           ELSE UNCHANGED <<Split, Maintenance, Start5, Start3, Start2>>
    /\ pc' = "print"
    /\ UNCHANGED <<T, Production, Prices, MaintenanceCoeff, Availability,
                   fixed, out>>

\* an engine that returns exact 0 and 1
Solve == SolveWith({<<0, One>>})

\* an engine that returns values near 0 and near 1: one tenth stands for
\* any rounding error above 0
SolveFloat == SolveWith({0, 1} \X {One - 1, One})

\* print_solution(model, results)
PrintSolution ==
    /\ pc = "print"
    /\ out' = print_solution(status, termination)
    /\ pc' = "done"
    /\ UNCHANGED <<T, Production, Prices, MaintenanceCoeff, Availability,
                   fixed, Split, Maintenance, Start5, Start3, Start2, loaded,
                   status, termination>>

Next == Build \/ Solve \/ PrintSolution

Spec == Init /\ [][Next]_vars

NextFloat == Build \/ SolveFloat \/ PrintSolution

\* the pipeline with an engine that returns floating-point values
SpecFloat == Init /\ [][NextFloat]_vars

\* Scenario A: T = 10, every day available, production 1, price 10, coeff 1
InitA ==
    Start(10, [prod  |-> [d \in 1..10 |-> 1],
               price |-> [d \in 1..10 |-> 10],
               coeff |-> [d \in 1..10 |-> 1],
               avail |-> [d \in 1..10 |-> 1]])

SpecA == InitA /\ [][Next]_vars

\* Scenario B: Scenario A with days 4 to 10 unavailable
InitB ==
    Start(10, [prod  |-> [d \in 1..10 |-> 1],
               price |-> [d \in 1..10 |-> 10],
               coeff |-> [d \in 1..10 |-> 1],
               avail |-> [d \in 1..10 |-> IF d >= 4 THEN 0 ELSE 1]])

SpecB == InitB /\ [][Next]_vars

----------------------------------------------------------------------------
\* Properties

Built == pc # "build"

Printed == pc = "done"

\* the days on which a family of variables holds exactly 1
Ones(x) == {d \in Days : x[d] = One}

Zero(x) == \A d \in Days : x[d] = 0

NoSolutionOut == <<Line("No feasible solution or solver error.", 0)>>

StartTexts == {"5-day window starts on day", "3-day window starts on day",
               "2-day window starts on day"}

IsStartLine(l) == l.text \in StartTexts

\* C1: every satisfying assignment is of exactly one strategy: with Split = 0
\* exactly one Start5 is 1 and every Start3 and Start2 is 0; with Split = 1
\* exactly one Start3 and exactly one Start2 are 1 and every Start5 is 0.
C1_MutuallyExclusive ==
    loaded =>
        /\ Split \in {0, One}
        /\ \A d \in Days : {Start5[d], Start3[d], Start2[d]} \subseteq {0, One}
        /\ Split = 0 =>
            Cardinality(Ones(Start5)) = 1 /\ Zero(Start3) /\ Zero(Start2)
        /\ Split = One =>
            /\ Cardinality(Ones(Start3)) = 1
            /\ Cardinality(Ones(Start2)) = 1
            /\ Zero(Start5)

C1_Witness ==
    /\ loaded
    /\ Split = One
    /\ T >= 5
    /\ Start3[1] = One
    /\ Start2[4] = One

\* C2: once the model is built, the three start variables of every
\* unavailable day are fixed, and they hold 0 in every solution the engine
\* loads, whatever the data of the objective.
C2_UnavailableStartsFixed ==
    Built =>
        \A d \in Days : Availability[d] = 0 =>
            /\ {<<"Start5", d>>, <<"Start3", d>>, <<"Start2", d>>} \subseteq fixed
            /\ Start5[d] = 0 /\ Start3[d] = 0 /\ Start2[d] = 0

C2_Witness ==
    /\ loaded
    /\ status = "ok" /\ termination = "optimal"
    /\ T >= 3
    /\ Availability[T] = 0 /\ Availability[1] = 1
    /\ Production[1] = 1 /\ MaintenanceCoeff[1] = 1

\* the days under maintenance
MaintDays == {d \in Days : Maintenance[d] = One}

\* a solution reported optimal for data with revenue and maintenance cost
OptimalLoaded ==
    /\ loaded
    /\ status = "ok" /\ termination = "optimal"
    /\ \A d \in Days : Production[d] = 1 /\ MaintenanceCoeff[d] = 1

\* C3: the maintenance days are one run of exactly 5 days from the Start5
\* day (Split = 0), or a run of exactly 3 days from the Start3 day and a
\* disjoint run of exactly 2 days from the Start2 day (Split = 1); no run is
\* cut short by the end of the horizon.  Stated for the solutions
\* reported optimal on horizons that can hold a whole 5-day window.
C3_ExactRuns ==
    (OptimalLoaded /\ T >= 5) =>
        /\ Split = 0 =>
            \E s \in Days : Start5[s] = One /\ MaintDays = s..(s + 4)
        /\ Split = One =>
            \E s3, s2 \in Days :
                /\ Start3[s3] = One /\ Start2[s2] = One
                /\ (s3..(s3 + 2)) \cap (s2..(s2 + 1)) = {}
                /\ MaintDays = (s3..(s3 + 2)) \cup (s2..(s2 + 1))

\* C4: no satisfying assignment has maintenance on an unavailable day.
\* Stated for the solutions reported optimal.
C4_NoMaintenanceOnUnavailableDay ==
    OptimalLoaded => \A d \in Days : Availability[d] = 0 => Maintenance[d] = 0

\* C5: print_solution prints a strategy, a start day or the revenue only for
\* status ok with termination optimal; for every other report it prints the
\* single no-solution line, whatever the variables hold.
C5_ReportOnlyWhenOptimal ==
    Printed =>
        IF status = "ok" /\ termination = "optimal"
        THEN out[1] = Line("Optimal solution found.", 0)
        ELSE out = NoSolutionOut

C5_Witness ==
    /\ Printed
    /\ status = "ok" /\ termination = "feasible"
    /\ loaded /\ Split = 0 /\ Start5[1] = One
    /\ out = NoSolutionOut

AllUnavailable == \A d \in Days : Availability[d] = 0

\* C6: with every day unavailable the built model has no satisfying
\* assignment, the engine never reports ok/optimal and loads nothing, and
\* print_solution ends with the single no-solution line.
C6_AllUnavailableNoSolution ==
    AllUnavailable =>
        /\ Built => Feasible = {}
        /\ pc \in {"print", "done"} =>
            ~(status = "ok" /\ termination = "optimal") /\ ~loaded
        /\ Printed => out = NoSolutionOut

C6_Witness ==
    /\ AllUnavailable
    /\ T >= 2
    /\ Printed
    /\ termination = "infeasible"
    /\ out = NoSolutionOut

\* the number of maintenance days of a satisfying assignment
LostDays(a) == Cardinality({d \in Days : a.Maintenance[d] = 1})

\* the best objective value among the satisfying assignments of a strategy
BestProfit(split) ==
    CHOOSE v \in {profit(a.Maintenance, 1) : a \in FeasibleWith(split)} :
        \A a \in FeasibleWith(split) : profit(a.Maintenance, 1) <= v

\* C7: in Scenario A every satisfying assignment loses exactly 5 maintenance
\* days, and the best objective value with Split = 0 equals the best
\* objective value with Split = 1.
C7_StrategiesTied ==
    (Printed /\ status = "ok" /\ termination = "optimal") =>
        /\ \A a \in Feasible : LostDays(a) = 5
        /\ BestProfit(0) = BestProfit(1)

Start5Days == {s \in Days : \E a \in FeasibleWith(0) : a.Start5[s] = 1}

StartLines == SelectSeq(out, IsStartLine)

\* C9: for an exact 0/1 solution reported ok/optimal, print_solution prints
\* exactly one start line under the 5-day strategy when Split = 0 (the day
\* with Start5 = 1) and exactly two under the split strategy when Split = 1
\* (the Start3 day and the Start2 day), and no start line of the other
\* strategy.
C9_StartDaysReported ==
    (Printed /\ status = "ok" /\ termination = "optimal") =>
        /\ Split = 0 =>
            /\ out[2] = Line("Chosen strategy: 5-day maintenance.", 0)
            /\ \E s \in Ones(Start5) :
                StartLines = <<Line("5-day window starts on day", s)>>
        /\ Split = One =>
            /\ out[2] = Line("Chosen strategy: 3-day + 2-day maintenance.", 0)
            /\ Len(StartLines) = 2
            /\ \E s3 \in Ones(Start3), s2 \in Ones(Start2) :
                {StartLines[1], StartLines[2]} =
                    {Line("3-day window starts on day", s3),
                     Line("2-day window starts on day", s2)}

C9_Witness ==
    /\ Printed /\ status = "ok" /\ termination = "optimal"
    /\ Split = One
    /\ T >= 5
    /\ Start2[1] = One /\ Start3[3] = One
    /\ Len(StartLines) = 2

\* a solved value resolved with the 0.5 threshold
Selected(v) == v > Half

\* the strategy and start lines the 0.5 threshold gives for the solved values
ThresholdReport ==
    IF ~Selected(Split)
    THEN <<Line("Chosen strategy: 5-day maintenance.", 0)>>
         \o Starts5From(1)
    ELSE <<Line("Chosen strategy: 3-day + 2-day maintenance.", 0)>>
         \o Starts32From(1)

\* the strategy and start lines of the printed report
PrintedReport == SubSeq(out, 2, Len(out) - 1)

\* C10: for a report ok/optimal, the printed strategy and start days are the
\* ones the 0.5 threshold gives for every solved value read, Split included:
\* a value above 0.5 counts as 1, a value at or below 0.5 as 0.
C10_ThresholdEverywhere ==
    (Printed /\ status = "ok" /\ termination = "optimal") =>
        PrintedReport = ThresholdReport

====
